---- MODULE Spec2Model ----
(***************************************************************************)
(* Model of rust-o11y: the configuration records (src/src/config.rs and    *)
(* the four subsystem config.rs), the subsystem setup functions (mod.rs)   *)
(* and the lifecycle controller Telemetry (src/src/telemetry.rs).          *)
(*                                                                         *)
(* Spec          one Telemetry::new followed by Telemetry::shutdown        *)
(* SpecConfig    the caller applying apply_defaults / validate to a Config *)
(* SpecWiring    Telemetry::new on configurations that carry credentials   *)
(*               and resource customizers                                  *)
(* SpecAuth      the caller building a Credentials and deriving headers    *)
(* SpecDefaults  apply_defaults on configurations with arbitrary tuning    *)
(* SpecEndpoint  the endpoint normalization of logger and meter setup      *)
(***************************************************************************)
EXTENDS Integers, Sequences, FiniteSets, TLC

VARIABLES
    profilerCompiled, \* cfg(all(unix, feature = "profiler")) of the build
    config,           \* the Config value owned by the running operation
    pc,               \* position of the caller / of Telemetry::new
    tele,             \* the four Option<handle> slots (locals of new, then Telemetry)
    prov,             \* state of the provider object each setup built
    shutdownCalls,    \* number of <subsystem>::shutdown calls made on each handle
    calls,            \* the setup functions invoked so far, in order
    globals,          \* process-wide registrations
    globals0,         \* the process-wide registrations before the operation
    result,           \* what Telemetry::new returned
    reported,         \* what was written with eprintln!
    vres,             \* the last call of the caller and its result
    resource,         \* the local `resource` of Telemetry::new
    wiring            \* what each setup handed to the SDK's exporter and provider builders

vars == <<profilerCompiled, config, pc, tele, prov, shutdownCalls, calls,
          globals, globals0, result, reported, vres, resource, wiring>>

----------------------------------------------------------------------------
(* Values *)

None == "None"                      \* Option::None
Endpoint == "http://collector:4318" \* some Some(endpoint)
Endpoints == {None, Endpoint}

ServiceNames == {"", "svc"}         \* top-level service names
SubsystemNames == {"", "own"}       \* names given to a subsystem constructor
CallerNames == {"", "svc", "own"}   \* the same, for a configuration the caller validates

Order == <<"log", "trace", "metric", "profile">>
Subsystems == {"log", "trace", "metric", "profile"}

\* Durations are in milliseconds, sample ratios in hundredths.
DEFAULT_TIMEOUT == 5000
DEFAULT_EXPORT_TIMEOUT == 10000
DEFAULT_EXPORT_INTERVAL == 10000
DEFAULT_SAMPLE_RATIO == 100
DEFAULT_SERVICE_VERSION == "0.1.0"
DEFAULT_SERVICE_NAMESPACE == "default"

AsSecs(ms) == ms \div 1000          \* Duration::as_secs

\* The telemetry signals exported over OTLP
OtlpSubsystems == {"log", "trace", "metric"}

----------------------------------------------------------------------------
(* Strings.  A Rust String is a TLA+ string; the str methods the code      *)
(* uses are computed character by character.                                *)

CharAt(s, i) == SubSeq(s, i, i)

\* str::ends_with
EndsWith(s, suffix) ==
    /\ Len(suffix) <= Len(s)
    /\ SubSeq(s, Len(s) - Len(suffix) + 1, Len(s)) = suffix

\* str::trim_end_matches with a character pattern
RECURSIVE TrimEndMatches(_, _)
TrimEndMatches(s, ch) ==
    IF Len(s) > 0 /\ CharAt(s, Len(s)) = ch
    THEN TrimEndMatches(SubSeq(s, 1, Len(s) - 1), ch)
    ELSE s

UpperAlphabet == "ABCDEFGHIJKLMNOPQRSTUVWXYZ"
LowerAlphabet == "abcdefghijklmnopqrstuvwxyz"
Digits == "0123456789"

\* position of the character ch in the string a, 0 when it is not there
IndexIn(ch, a) ==
    IF \E i \in 1..Len(a) : CharAt(a, i) = ch
    THEN CHOOSE i \in 1..Len(a) : CharAt(a, i) = ch
    ELSE 0

\* u8::to_ascii_lowercase
ToAsciiLowercase(ch) ==
    IF IndexIn(ch, UpperAlphabet) > 0
    THEN CharAt(LowerAlphabet, IndexIn(ch, UpperAlphabet))
    ELSE ch

\* str::eq_ignore_ascii_case
EqIgnoreAsciiCase(a, b) ==
    /\ Len(a) = Len(b)
    /\ \A i \in 1..Len(a) :
          ToAsciiLowercase(CharAt(a, i)) = ToAsciiLowercase(CharAt(b, i))

\* str::as_bytes, one character: the ASCII code of a letter, a digit or ":"
AsciiCode(ch) ==
    CASE IndexIn(ch, UpperAlphabet) > 0 -> 64 + IndexIn(ch, UpperAlphabet)
      [] IndexIn(ch, LowerAlphabet) > 0 -> 96 + IndexIn(ch, LowerAlphabet)
      [] IndexIn(ch, Digits) > 0 -> 47 + IndexIn(ch, Digits)
      [] ch = ":" -> 58

\* base64 STANDARD engine: three bytes to four characters, "=" padding
Base64Alphabet == UpperAlphabet \o LowerAlphabet \o Digits \o "+/"

RECURSIVE Base64Encode(_)
Base64Encode(s) ==
    LET b(i) == AsciiCode(CharAt(s, i))
        c(n) == CharAt(Base64Alphabet, n + 1)
    IN IF Len(s) = 0 THEN ""
       ELSE IF Len(s) = 1
       THEN c(b(1) \div 4) \o c((b(1) % 4) * 16) \o "=="
       ELSE IF Len(s) = 2
       THEN c(b(1) \div 4) \o c((b(1) % 4) * 16 + b(2) \div 16)
            \o c((b(2) % 16) * 4) \o "="
       ELSE c(b(1) \div 4) \o c((b(1) % 4) * 16 + b(2) \div 16)
            \o c((b(2) % 16) * 4 + b(3) \div 64) \o c(b(3) % 64)
            \o Base64Encode(SubSeq(s, 4, Len(s)))

----------------------------------------------------------------------------
(* Credentials (auth.rs) *)

DEFAULT_API_KEY_HEADER == "X-API-Key"

\* HashMap::new()
EmptyMap == [k \in {} |-> ""]

\* HashMap::insert of (k, v) into the map m
MapInsert(m, k, v) ==
    [x \in DOMAIN m \cup {k} |-> IF x = k THEN v ELSE m[x]]

\* Credentials::new
CredentialsNew ==
    [basic_username |-> None, basic_password |-> None, bearer_token |-> None,
     api_key |-> None, api_key_header |-> None, headers |-> EmptyMap]

\* The builder-style mutators
WithBasic(c, username, password) ==
    [c EXCEPT !.basic_username = username, !.basic_password = password]

WithBearer(c, token) == [c EXCEPT !.bearer_token = token]

WithApiKey(c, key) == [c EXCEPT !.api_key = key]

WithApiKeyHeader(c, header) == [c EXCEPT !.api_key_header = header]

WithHeader(c, key, value) == [c EXCEPT !.headers = MapInsert(c.headers, key, value)]

\* Variant: only the exact key "Authorization" is filtered out.
ExtraHeadersCaseSensitive(c) ==
    LET kept == {k \in DOMAIN c.headers :
                    /\ k # "" /\ c.headers[k] # ""
                    /\ k # "Authorization"}
    IN [k \in kept |-> c.headers[k]]

\* Credentials::extra_headers
ExtraHeaders(c) ==
    LET kept == {k \in DOMAIN c.headers :
                    /\ k # "" /\ c.headers[k] # ""
                    /\ ~EqIgnoreAsciiCase(k, "authorization")}
    IN [k \in kept |-> c.headers[k]]

\* Variant: the API key always goes under the default header name.
InsertApiKeyDefaultName(c, h) ==
    IF c.api_key # None THEN MapInsert(h, DEFAULT_API_KEY_HEADER, c.api_key) ELSE h

\* header_map, `if let Some(ref api_key) = self.api_key { .. }`
InsertApiKey(c, h) ==
    IF c.api_key # None
    THEN MapInsert(h,
                   IF c.api_key_header # None THEN c.api_key_header
                   ELSE DEFAULT_API_KEY_HEADER,
                   c.api_key)
    ELSE h

\* Variant: a bearer token is looked at before the basic pair.
InsertAuthorizationBearerFirst(c, h) ==
    IF c.bearer_token # None
    THEN MapInsert(h, "Authorization", "Bearer " \o c.bearer_token)
    ELSE IF c.basic_username # None /\ c.basic_password # None
    THEN MapInsert(h, "Authorization",
                   "Basic " \o Base64Encode(c.basic_username \o ":" \o c.basic_password))
    ELSE h

\* header_map, `match (self.basic_username.as_ref(), self.basic_password.as_ref())`
InsertAuthorization(c, h) ==
    IF c.basic_username # None /\ c.basic_password # None
    THEN MapInsert(h, "Authorization",
                   "Basic " \o Base64Encode(c.basic_username \o ":" \o c.basic_password))
    ELSE IF c.bearer_token # None
    THEN MapInsert(h, "Authorization", "Bearer " \o c.bearer_token)
    ELSE h

\* Credentials::header_map
HeaderMap(c) == InsertAuthorization(c, InsertApiKey(c, ExtraHeaders(c)))

----------------------------------------------------------------------------
(* Constructors: the `new` of each configuration record *)

LoggerConfigNew(name) ==
    [enabled |-> TRUE, endpoint |-> None, service_name |-> name,
     environment |-> "development", timeout |-> DEFAULT_TIMEOUT,
     credentials |-> CredentialsNew]

TracerConfigNew(name) ==
    [enabled |-> TRUE, endpoint |-> None, service_name |-> name,
     sample_ratio |-> DEFAULT_SAMPLE_RATIO,
     export_timeout |-> DEFAULT_EXPORT_TIMEOUT, use_global |-> FALSE,
     credentials |-> CredentialsNew]

MeterConfigNew(name) ==
    [enabled |-> TRUE, endpoint |-> None, service_name |-> name,
     export_interval |-> DEFAULT_EXPORT_INTERVAL,
     runtime |-> [enabled |-> FALSE], use_global |-> FALSE,
     credentials |-> CredentialsNew]

ProfilerConfigNew(name) ==
    [enabled |-> TRUE, server_url |-> None, service_name |-> name,
     tags |-> [k \in {"service", "service_name"} |-> name],
     tenant_id |-> "anonymous", credentials |-> CredentialsNew]

ResourceConfigNew(name) ==
    [service_name |-> name, service_version |-> DEFAULT_SERVICE_VERSION,
     service_namespace |-> DEFAULT_SERVICE_NAMESPACE,
     environment |-> "", attributes |-> EmptyMap]

\* Config::new: no builder method of Config adds to customizers
ConfigNew(name) ==
    [resource |-> ResourceConfigNew(name),
     logger |-> LoggerConfigNew(name),
     tracer |-> TracerConfigNew(name),
     meter |-> MeterConfigNew(name),
     profiler |-> ProfilerConfigNew(name),
     customizers |-> <<>>]

\* ResourceConfig::build: the attribute set of the Resource.  The keys of
\* `attributes` are taken distinct from the four semantic-convention keys.
ResourceBuild(rc) ==
    LET base == [k \in {"service.name", "service.version", "service.namespace"} |->
                    CASE k = "service.name" -> rc.service_name
                      [] k = "service.version" -> rc.service_version
                      [] k = "service.namespace" -> rc.service_namespace]
        env == IF rc.environment # ""
               THEN MapInsert(base, "deployment.environment.name", rc.environment)
               ELSE base
    IN [k \in DOMAIN env \cup DOMAIN rc.attributes |->
           IF k \in DOMAIN rc.attributes THEN rc.attributes[k] ELSE env[k]]

\* ResourceCustomizer::customize of a customizer that returns Ok: the
\* customizer cz sets one attribute of the resource it is given
Customize(cz, res) == MapInsert(res, cz.key, cz.value)

----------------------------------------------------------------------------
(* apply_defaults *)

LoggerApplyDefaults(c) ==
    LET c1 == IF AsSecs(c.timeout) = 0
              THEN [c EXCEPT !.timeout = DEFAULT_TIMEOUT] ELSE c
    IN IF c1.environment = ""
       THEN [c1 EXCEPT !.environment = "development"] ELSE c1

\* Variant: the sample ratio is left as configured.
TracerApplyDefaultsKeepRatio(c) ==
    IF AsSecs(c.export_timeout) = 0
    THEN [c EXCEPT !.export_timeout = DEFAULT_EXPORT_TIMEOUT] ELSE c

\* TracerConfig::apply_defaults
TracerApplyDefaults(c) ==
    LET c1 == IF c.sample_ratio <= 0
              THEN [c EXCEPT !.sample_ratio = DEFAULT_SAMPLE_RATIO] ELSE c
    IN IF AsSecs(c1.export_timeout) = 0
       THEN [c1 EXCEPT !.export_timeout = DEFAULT_EXPORT_TIMEOUT] ELSE c1

\* Variant: an interval under one second is lengthened by half a second.
MeterApplyDefaultsLengthen(c) ==
    IF AsSecs(c.export_interval) = 0
    THEN [c EXCEPT !.export_interval = @ + 500] ELSE c

MeterApplyDefaults(c) ==
    IF AsSecs(c.export_interval) = 0
    THEN [c EXCEPT !.export_interval = DEFAULT_EXPORT_INTERVAL] ELSE c

\* HashMap::insert of (k, v) into the tag map t
TagInsert(t, k, v) ==
    [x \in DOMAIN t \cup {k} |-> IF x = k THEN v ELSE t[x]]

ProfilerApplyDefaults(c) ==
    LET c1 == IF c.tenant_id = None
              THEN [c EXCEPT !.tenant_id = "anonymous"] ELSE c
        c2 == IF "service" \notin DOMAIN c1.tags
              THEN [c1 EXCEPT !.tags = TagInsert(c1.tags, "service", c1.service_name)]
              ELSE c1
    IN IF "service_name" \notin DOMAIN c2.tags
       THEN [c2 EXCEPT !.tags = TagInsert(c2.tags, "service_name", c2.service_name)]
       ELSE c2

\* Variant: the resource's service name replaces the subsystem's, empty or not.
CascadeNameAlways(sub, res) == [sub EXCEPT !.service_name = res.service_name]

\* Fill an empty subsystem service name with the resource's service name.
CascadeName(sub, res) ==
    IF sub.service_name = ""
    THEN [sub EXCEPT !.service_name = res.service_name] ELSE sub

\* Variant: the resource's service name is not handed down.
ConfigApplyDefaultsNoCascade(c) ==
    [resource |-> c.resource,
     logger |-> LoggerApplyDefaults(c.logger),
     tracer |-> TracerApplyDefaults(c.tracer),
     meter |-> MeterApplyDefaults(c.meter),
     profiler |-> ProfilerApplyDefaults(c.profiler),
     customizers |-> c.customizers]

\* Config::apply_defaults
ConfigApplyDefaults(c) ==
    LET r1 == IF c.resource.service_version = ""
              THEN [c.resource EXCEPT !.service_version = DEFAULT_SERVICE_VERSION]
              ELSE c.resource
        r2 == IF r1.service_namespace = ""
              THEN [r1 EXCEPT !.service_namespace = DEFAULT_SERVICE_NAMESPACE]
              ELSE r1
    IN [resource |-> r2,
        logger |-> LoggerApplyDefaults(CascadeName(c.logger, r2)),
        tracer |-> TracerApplyDefaults(CascadeName(c.tracer, r2)),
        meter |-> MeterApplyDefaults(CascadeName(c.meter, r2)),
        profiler |-> ProfilerApplyDefaults(CascadeName(c.profiler, r2)),
        customizers |-> c.customizers]

----------------------------------------------------------------------------
(* validate *)

VOk == [ok |-> TRUE, err |-> ""]
VErr(e) == [ok |-> FALSE, err |-> e]

\* enabled, then service name, then endpoint: the shape shared by the
\* logger, tracer and meter configurations
\* Variant: the endpoint is not required.
LoggerValidateNoEndpoint(c) ==
    IF ~c.enabled THEN VOk
    ELSE IF c.service_name = "" THEN VErr("ServiceNameRequired")
    ELSE VOk

LoggerValidate(c) ==
    IF ~c.enabled THEN VOk
    ELSE IF c.service_name = "" THEN VErr("ServiceNameRequired")
    ELSE IF c.endpoint = None THEN VErr("EndpointRequired")
    ELSE VOk

TracerValidate(c) ==
    IF ~c.enabled THEN VOk
    ELSE IF c.service_name = "" THEN VErr("ServiceNameRequired")
    ELSE IF c.endpoint = None THEN VErr("EndpointRequired")
    ELSE VOk

\* Variant: the service name is checked before the enabled flag.
MeterValidateNameFirst(c) ==
    IF c.service_name = "" THEN VErr("ServiceNameRequired")
    ELSE IF ~c.enabled THEN VOk
    ELSE IF c.endpoint = None THEN VErr("EndpointRequired")
    ELSE VOk

MeterValidate(c) ==
    IF ~c.enabled THEN VOk
    ELSE IF c.service_name = "" THEN VErr("ServiceNameRequired")
    ELSE IF c.endpoint = None THEN VErr("EndpointRequired")
    ELSE VOk

ProfilerValidate(c) ==
    IF ~c.enabled THEN VOk
    ELSE IF c.service_name = "" THEN VErr("ServiceNameRequired")
    ELSE IF c.server_url = None THEN VErr("ServerUrlRequired")
    ELSE VOk

\* The #[error("...")] text of each error variant (Display / to_string)
LoggerErrorDisplay(e) ==
    IF e = "ServiceNameRequired" THEN "logger service_name is required"
    ELSE "logger endpoint is required when enabled"

TracerErrorDisplay(e) ==
    IF e = "ServiceNameRequired" THEN "tracer service_name is required"
    ELSE "tracer endpoint is required when enabled"

MeterErrorDisplay(e) ==
    IF e = "ServiceNameRequired" THEN "meter service_name is required"
    ELSE "meter endpoint is required when enabled"

ProfilerErrorDisplay(e) ==
    IF e = "ServiceNameRequired" THEN "profiler service_name is required"
    ELSE "profiler server_url is required when enabled"

\* ConfigError values: the variant and the message it carries
ConfigErr(variant, msg) == [ok |-> FALSE, variant |-> variant, msg |-> msg]
ConfigOk == [ok |-> TRUE, variant |-> "", msg |-> ""]

\* Variant: the tracer is validated before the logger.
ConfigValidateTracerFirst(c) ==
    IF c.resource.service_name = "" THEN ConfigErr("ServiceNameRequired", "")
    ELSE IF ~TracerValidate(c.tracer).ok
    THEN ConfigErr("Tracer", TracerErrorDisplay(TracerValidate(c.tracer).err))
    ELSE IF ~LoggerValidate(c.logger).ok
    THEN ConfigErr("Logger", LoggerErrorDisplay(LoggerValidate(c.logger).err))
    ELSE IF ~MeterValidate(c.meter).ok
    THEN ConfigErr("Meter", MeterErrorDisplay(MeterValidate(c.meter).err))
    ELSE IF ~ProfilerValidate(c.profiler).ok
    THEN ConfigErr("Profiler", ProfilerErrorDisplay(ProfilerValidate(c.profiler).err))
    ELSE ConfigOk

ConfigValidate(c) ==
    IF c.resource.service_name = "" THEN ConfigErr("ServiceNameRequired", "")
    ELSE IF ~LoggerValidate(c.logger).ok
    THEN ConfigErr("Logger", LoggerErrorDisplay(LoggerValidate(c.logger).err))
    ELSE IF ~TracerValidate(c.tracer).ok
    THEN ConfigErr("Tracer", TracerErrorDisplay(TracerValidate(c.tracer).err))
    ELSE IF ~MeterValidate(c.meter).ok
    THEN ConfigErr("Meter", MeterErrorDisplay(MeterValidate(c.meter).err))
    ELSE IF ~ProfilerValidate(c.profiler).ok
    THEN ConfigErr("Profiler", ProfilerErrorDisplay(ProfilerValidate(c.profiler).err))
    ELSE ConfigOk

----------------------------------------------------------------------------
(* Subsystem setup functions.  buildOk is the outcome of the exporter's   *)
(* (the agent's) build, which belongs to the SDK.                         *)

SetupNone == [ok |-> TRUE, some |-> FALSE, err |-> ""]
SetupSome == [ok |-> TRUE, some |-> TRUE, err |-> ""]
SetupErr(e) == [ok |-> FALSE, some |-> FALSE, err |-> e]

\* Variant: the endpoint is required before the enabled flag is looked at.
LoggerSetupEndpointFirst(c, buildOk) ==
    IF c.endpoint = None
    THEN SetupErr("logger endpoint is required when enabled")
    ELSE IF ~c.enabled THEN SetupNone
    ELSE IF ~buildOk THEN SetupErr("log exporter build failed")
    ELSE SetupSome

\* logger::setup
LoggerSetup(c, buildOk) ==
    IF ~c.enabled THEN SetupNone
    ELSE IF c.endpoint = None
    THEN SetupErr("logger endpoint is required when enabled")
    ELSE IF ~buildOk THEN SetupErr("log exporter build failed")
    ELSE SetupSome

\* tracer::setup: the result and the process-wide registrations it leaves
TracerSetup(c, buildOk, g) ==
    IF ~c.enabled THEN [res |-> SetupNone, g |-> g]
    ELSE IF c.endpoint = None
    THEN [res |-> SetupErr("tracer endpoint is required when enabled"), g |-> g]
    ELSE LET g1 == [g EXCEPT !.propagator = "this"]
         IN IF ~buildOk
            THEN [res |-> SetupErr("span exporter build failed"), g |-> g1]
            ELSE [res |-> SetupSome, g |-> g1]

\* Variant: the provider slot is claimed before the setup result is known.
TracerInitEager(c, buildOk, g) ==
    LET r == TracerSetup(c, buildOk, g)
    IN IF c.use_global THEN [r EXCEPT !.g.tracer_provider = "this"] ELSE r

\* tracer::init
TracerInit(c, buildOk, g) ==
    LET r == TracerSetup(c, buildOk, g)
    IN IF ~r.res.ok THEN r
       ELSE IF c.use_global /\ r.res.some
       THEN [r EXCEPT !.g.tracer_provider = "this"]
       ELSE r

\* meter::setup
MeterSetup(c, buildOk) ==
    IF ~c.enabled THEN SetupNone
    ELSE IF c.endpoint = None
    THEN SetupErr("meter endpoint is required when enabled")
    ELSE IF ~buildOk THEN SetupErr("metric exporter build failed")
    ELSE SetupSome

\* Variant: the provider is returned without being installed process-wide.
MeterInitNoInstall(c, buildOk, g) ==
    [res |-> MeterSetup(c, buildOk), g |-> g]

\* meter::init
MeterInit(c, buildOk, g) ==
    LET r == MeterSetup(c, buildOk)
    IN IF ~r.ok THEN [res |-> r, g |-> g]
       ELSE IF c.use_global /\ r.some
       THEN [res |-> r, g |-> [g EXCEPT !.meter_provider = "this"]]
       ELSE [res |-> r, g |-> g]

\* meter::register_runtime_metrics: builds the gauge on the meter of the
\* process-wide meter provider; it has no failing path
RegisterRuntimeMetrics(g) ==
    [ok |-> TRUE, g |-> [g EXCEPT !.runtime_gauge = g.meter_provider]]

\* Variant: the enabled flag of the profile configuration is not looked at.
ProfilerSetupIgnoresEnabled(c, buildOk, compiled) ==
    IF ~compiled THEN SetupNone
    ELSE IF c.server_url = None
    THEN IF c.enabled THEN SetupErr("profiler server_url is required when enabled")
         ELSE SetupNone
    ELSE IF ~buildOk THEN SetupErr("failed to configure pyroscope agent")
    ELSE SetupSome

\* profiler::setup, in both builds
ProfilerSetup(c, buildOk, compiled) ==
    IF ~compiled THEN SetupNone
    ELSE IF ~c.enabled THEN SetupNone
    ELSE IF c.server_url = None
    THEN SetupErr("profiler server_url is required when enabled")
    ELSE IF ~buildOk THEN SetupErr("failed to configure pyroscope agent")
    ELSE SetupSome

\* Variant: a failed tracer setup is turned into an absent handle.
SetupTracerDegrade(c, buildOk, g) ==
    LET r == IF c.tracer.use_global
             THEN TracerInit(c.tracer, buildOk, g)
             ELSE TracerSetup(c.tracer, buildOk, g)
    IN IF r.res.ok THEN r ELSE [res |-> SetupNone, g |-> r.g]

\* telemetry.rs setup_tracer
SetupTracer(c, buildOk, g) ==
    IF c.tracer.use_global
    THEN TracerInit(c.tracer, buildOk, g)
    ELSE TracerSetup(c.tracer, buildOk, g)

\* Variant: the gauge is registered whatever the runtime toggle says.
SetupMeterAlwaysRegister(c, buildOk, g) ==
    LET r == IF c.meter.use_global
             THEN MeterInit(c.meter, buildOk, g)
             ELSE [res |-> MeterSetup(c.meter, buildOk), g |-> g]
    IN IF ~r.res.ok THEN [res |-> r.res, g |-> r.g, logged |-> {}]
       ELSE IF c.meter.use_global /\ r.res.some
       THEN [res |-> r.res, g |-> RegisterRuntimeMetrics(r.g).g, logged |-> {}]
       ELSE [res |-> r.res, g |-> r.g, logged |-> {}]

\* telemetry.rs setup_meter: the provider, then the runtime gauge
SetupMeter(c, buildOk, g) ==
    LET r == IF c.meter.use_global
             THEN MeterInit(c.meter, buildOk, g)
             ELSE [res |-> MeterSetup(c.meter, buildOk), g |-> g]
    IN IF ~r.res.ok THEN [res |-> r.res, g |-> r.g, logged |-> {}]
       ELSE IF c.meter.runtime.enabled /\ c.meter.use_global /\ r.res.some
       THEN LET reg == RegisterRuntimeMetrics(r.g)
            IN [res |-> r.res, g |-> reg.g,
                logged |-> IF reg.ok THEN {}
                           ELSE {"failed to register runtime metrics"}]
       ELSE [res |-> r.res, g |-> r.g, logged |-> {}]

\* What a setup hands to the SDK builders: the endpoint and the headers of
\* the exporter, and the resource of the provider
NoWiring == [built |-> FALSE, endpoint |-> "", headers |-> EmptyMap, resource |-> EmptyMap]
Wiring(endpoint, headers, res) ==
    [built |-> TRUE, endpoint |-> endpoint, headers |-> headers, resource |-> res]

\* Variant: the suffix is appended whatever the endpoint ends with.
LoggerNormalizeEndpointAppend(endpoint) ==
    TrimEndMatches(endpoint, "/") \o "/v1/logs"

\* logger::setup, the endpoint handed to the log exporter
LoggerNormalizeEndpoint(endpoint) ==
    IF EndsWith(endpoint, "/v1/logs") THEN endpoint
    ELSE TrimEndMatches(endpoint, "/") \o "/v1/logs"

\* meter::setup, the endpoint handed to the metric exporter
MeterNormalizeEndpoint(endpoint) ==
    IF EndsWith(endpoint, "/v1/metrics") THEN endpoint
    ELSE TrimEndMatches(endpoint, "/") \o "/v1/metrics"

\* logger::setup, the builder calls: with_http, with_endpoint, with_resource.
\* No header is given to the exporter builder.
LoggerWiring(c, res) == Wiring(LoggerNormalizeEndpoint(c.endpoint), EmptyMap, res)

\* opentelemetry_sdk Sampler, the three variants tracer::setup can choose
AlwaysOff == [kind |-> "AlwaysOff"]
AlwaysOn == [kind |-> "AlwaysOn"]
TraceIdRatioBased(ratio) == [kind |-> "TraceIdRatioBased", ratio |-> ratio]

\* Variant: a ratio of exactly zero is handed to the ratio-based sampler.
SamplerFromRatioStrict(ratio) ==
    IF ratio < 0 THEN AlwaysOff
    ELSE IF ratio >= 100 THEN AlwaysOn
    ELSE TraceIdRatioBased(ratio)

\* tracer::sampler_from_ratio, the ratio in hundredths
SamplerFromRatio(ratio) ==
    IF ratio <= 0 THEN AlwaysOff
    ELSE IF ratio >= 100 THEN AlwaysOn
    ELSE TraceIdRatioBased(ratio)

\* tracer::setup, the builder calls: with_tonic, with_endpoint, with_sampler,
\* with_resource
TracerWiring(c, res) ==
    [sampler |-> SamplerFromRatio(c.sample_ratio)]
        @@ Wiring(c.endpoint, EmptyMap, res)

\* meter::setup, the builder calls: with_http, with_endpoint, with_resource
MeterWiring(c, res) == Wiring(MeterNormalizeEndpoint(c.endpoint), EmptyMap, res)

\* telemetry.rs install_tracing_subscriber; set_global_default fails only
\* when a global dispatcher is already set
InstallTracingSubscriber(g) ==
    IF g.subscriber # "none" THEN [ok |-> TRUE, g |-> g]
    ELSE [ok |-> TRUE, g |-> [g EXCEPT !.subscriber = "this"]]

----------------------------------------------------------------------------
(* Telemetry::shutdown and the end of a handle's life *)

\* Variant: the first failing subsystem shutdown ends Telemetry::shutdown.
ShutdownVisitedStopAtFailure(t, failing) ==
    {s \in Subsystems :
        /\ t[s] = "Some"
        /\ \A i, j \in 1..Len(Order) :
              (Order[j] = s /\ i < j /\ t[Order[i]] = "Some") => Order[i] \notin failing}

\* The handles whose subsystem shutdown Telemetry::shutdown calls: four
\* independent `if let Some(..)`, whatever an earlier shutdown returned.
ShutdownVisited(t, failing) == {s \in Subsystems : t[s] = "Some"}

\* A handle that goes out of scope without a shutdown call.  A provider
\* installed process-wide is still held by the registry.
DropHandle(s, p, g) ==
    IF (s = "trace" /\ g.tracer_provider = "this")
       \/ (s = "metric" /\ g.meter_provider = "this")
    THEN p
    ELSE "dropped"

\* Telemetry::has_logger, has_tracer, has_meter, has_profiler
HasLogger(t) == t["log"] = "Some"
HasTracer(t) == t["trace"] = "Some"
HasMeter(t) == t["metric"] = "Some"
HasProfiler(t) == t["profile"] = "Some"

----------------------------------------------------------------------------
(* Inputs *)

ResourceConfigs ==
    [service_name : ServiceNames,
     service_version : {DEFAULT_SERVICE_VERSION},
     service_namespace : {DEFAULT_SERVICE_NAMESPACE},
     environment : {""}, attributes : {EmptyMap}]

LoggerConfigs(names) ==
    [enabled : BOOLEAN, endpoint : Endpoints, service_name : names,
     environment : {"development"}, timeout : {DEFAULT_TIMEOUT},
     credentials : {CredentialsNew}]

TracerConfigs(names, globalFlags) ==
    [enabled : BOOLEAN, endpoint : Endpoints, service_name : names,
     sample_ratio : {DEFAULT_SAMPLE_RATIO},
     export_timeout : {DEFAULT_EXPORT_TIMEOUT}, use_global : globalFlags,
     credentials : {CredentialsNew}]

MeterConfigs(names, globalFlags) ==
    [enabled : BOOLEAN, endpoint : Endpoints, service_name : names,
     export_interval : {DEFAULT_EXPORT_INTERVAL},
     runtime : [enabled : globalFlags], use_global : globalFlags,
     credentials : {CredentialsNew}]

ProfilerConfigs(names) ==
    {[enabled |-> e, server_url |-> u, service_name |-> n,
      tags |-> [k \in {"service", "service_name"} |-> n],
      tenant_id |-> "anonymous", credentials |-> CredentialsNew] :
        e \in BOOLEAN, u \in Endpoints, n \in names}

\* Configurations handed to Telemetry::new
LifecycleConfigs ==
    [resource : ResourceConfigs, logger : LoggerConfigs(SubsystemNames),
     tracer : TracerConfigs(SubsystemNames, BOOLEAN),
     meter : MeterConfigs(SubsystemNames, BOOLEAN),
     profiler : ProfilerConfigs(SubsystemNames),
     customizers : {<<>>}]

\* Configurations the caller validates itself
CallerConfigs ==
    [resource : ResourceConfigs, logger : LoggerConfigs(CallerNames),
     tracer : TracerConfigs(CallerNames, {FALSE}),
     meter : MeterConfigs(CallerNames, {FALSE}),
     profiler : ProfilerConfigs(CallerNames),
     customizers : {<<>>}]

\* The process-wide registrations found by the operation: a fresh process,
\* or one in which every slot was set before.
FreshGlobals ==
    [propagator |-> "none", tracer_provider |-> "none",
     meter_provider |-> "none", subscriber |-> "none", runtime_gauge |-> "none"]

PriorGlobals ==
    {FreshGlobals,
     [propagator |-> "prior", tracer_provider |-> "prior",
      meter_provider |-> "prior", subscriber |-> "prior", runtime_gauge |-> "none"]}

NoHandles == [s \in Subsystems |-> "None"]
NothingWired == [s \in OtlpSubsystems |-> NoWiring]
NoCall == [op |-> "none"]
\* What Telemetry::new returned: nothing yet, Ok(Telemetry), or the error
\* with the statement it came from (stage) and, for validation, its variant
Pending == [status |-> "pending", stage |-> "", variant |-> "", msg |-> ""]
NewOk == [status |-> "ok", stage |-> "", variant |-> "", msg |-> ""]
NewErr(stage, variant, msg) ==
    [status |-> "err", stage |-> stage, variant |-> variant, msg |-> msg]

----------------------------------------------------------------------------
(* Telemetry::new, one step per statement, then Telemetry::shutdown *)

Init ==
    /\ profilerCompiled \in BOOLEAN
    /\ config \in LifecycleConfigs
    /\ pc = "new"
    /\ tele = NoHandles
    /\ prov = [s \in Subsystems |-> "none"]
    /\ shutdownCalls = [s \in Subsystems |-> 0]
    /\ calls = <<>>
    /\ globals \in PriorGlobals
    /\ globals0 = globals
    /\ result = Pending
    /\ reported = {}
    /\ vres = NoCall
    /\ resource = EmptyMap
    /\ wiring = NothingWired

\* `?` on a failed setup: new returns the error and its locals go out of scope
EarlyReturn(stage, msg, g) ==
    /\ result' = NewErr(stage, "", msg)
    /\ pc' = "returned"
    /\ prov' = [s \in Subsystems |->
                  IF tele[s] = "Some" THEN DropHandle(s, prov[s], g) ELSE prov[s]]
    /\ tele' = NoHandles

\* a setup returned Ok(handle): the local of subsystem s is bound
Bind(s, r, next) ==
    /\ tele' = [tele EXCEPT ![s] = IF r.some THEN "Some" ELSE "None"]
    /\ prov' = [prov EXCEPT ![s] = IF r.some THEN "live" ELSE @]
    /\ pc' = next
    /\ UNCHANGED result

\* Variant: the logger is set up before the validation result is looked at.
NewValidateAfterLogger ==
    /\ pc = "new"
    /\ config' = ConfigApplyDefaults(config)
    /\ calls' = Append(calls, "log")
    /\ LET v == ConfigValidate(config')
           r == LoggerSetup(config'.logger, TRUE)
       IN /\ prov' = [prov EXCEPT !["log"] = IF r.some THEN "dropped" ELSE @]
          /\ wiring' = [wiring EXCEPT !["log"] =
                           IF r.some
                           THEN LoggerWiring(config'.logger, ResourceBuild(config'.resource))
                           ELSE @]
          /\ IF v.ok
             THEN /\ pc' = "setup_tracer"
                  /\ resource' = ResourceBuild(config'.resource)
                  /\ UNCHANGED result
             ELSE /\ pc' = "returned"
                  /\ result' = NewErr("validate", v.variant, v.msg)
                  /\ UNCHANGED resource
    /\ UNCHANGED <<profilerCompiled, tele, shutdownCalls, globals, globals0,
                   reported, vres>>

\* config.apply_defaults(); config.validate()?;
\* let resource = config.resource.build();
NewValidate ==
    /\ pc = "new"
    /\ config' = ConfigApplyDefaults(config)
    /\ LET v == ConfigValidate(config')
       IN IF v.ok
          THEN /\ pc' = "setup_logger"
               /\ resource' = ResourceBuild(config'.resource)
               /\ UNCHANGED result
          ELSE /\ pc' = "returned"
               /\ result' = NewErr("validate", v.variant, v.msg)
               /\ UNCHANGED resource
    /\ UNCHANGED <<profilerCompiled, tele, prov, shutdownCalls, calls, globals,
                   globals0, reported, vres, wiring>>

\* let logger = setup_logger(&config, &resource)?;
NewSetupLogger ==
    /\ pc = "setup_logger"
    /\ calls' = Append(calls, "log")
    /\ \E buildOk \in BOOLEAN :
         LET r == LoggerSetup(config.logger, buildOk)
         IN /\ wiring' = [wiring EXCEPT !["log"] =
                             IF r.some THEN LoggerWiring(config.logger, resource) ELSE @]
            /\ IF r.ok THEN Bind("log", r, "setup_tracer")
               ELSE EarlyReturn("log", r.err, globals)
    /\ UNCHANGED <<profilerCompiled, config, shutdownCalls, globals, globals0,
                   reported, vres, resource>>

\* let tracer = setup_tracer(&config, &resource)?;
NewSetupTracer ==
    /\ pc = "setup_tracer"
    /\ calls' = Append(calls, "trace")
    /\ \E buildOk \in BOOLEAN :
         LET r == SetupTracer(config, buildOk, globals)
         IN /\ globals' = r.g
            /\ wiring' = [wiring EXCEPT !["trace"] =
                             IF r.res.some THEN TracerWiring(config.tracer, resource) ELSE @]
            /\ IF r.res.ok THEN Bind("trace", r.res, "setup_meter")
               ELSE EarlyReturn("trace", r.res.err, r.g)
    /\ UNCHANGED <<profilerCompiled, config, shutdownCalls, globals0, reported, vres,
                   resource>>

\* let meter = setup_meter(&config, &resource)?;
NewSetupMeter ==
    /\ pc = "setup_meter"
    /\ calls' = Append(calls, "metric")
    /\ \E buildOk \in BOOLEAN :
         LET r == SetupMeter(config, buildOk, globals)
         IN /\ globals' = r.g
            /\ reported' = reported \cup r.logged
            /\ wiring' = [wiring EXCEPT !["metric"] =
                             IF r.res.some THEN MeterWiring(config.meter, resource) ELSE @]
            /\ IF r.res.ok THEN Bind("metric", r.res, "setup_profiler")
               ELSE EarlyReturn("metric", r.res.err, r.g)
    /\ UNCHANGED <<profilerCompiled, config, shutdownCalls, globals0, vres, resource>>

\* let profiler = setup_profiler(&config)?;
NewSetupProfiler ==
    /\ pc = "setup_profiler"
    /\ calls' = Append(calls, "profile")
    /\ \E buildOk \in BOOLEAN :
         LET r == ProfilerSetup(config.profiler, buildOk, profilerCompiled)
         IN IF r.ok THEN Bind("profile", r, "subscriber")
            ELSE EarlyReturn("profile", r.err, globals)
    /\ UNCHANGED <<profilerCompiled, config, shutdownCalls, globals, globals0,
                   reported, vres, resource, wiring>>

\* install_tracing_subscriber(..) with its error only printed; Ok(Self {..})
NewInstallSubscriber ==
    /\ pc = "subscriber"
    /\ LET r == InstallTracingSubscriber(globals)
       IN /\ globals' = r.g
          /\ reported' = IF r.ok THEN reported
                         ELSE reported \cup {"failed to install tracing subscriber"}
    /\ result' = NewOk
    /\ pc' = "active"
    /\ UNCHANGED <<profilerCompiled, config, tele, prov, shutdownCalls, calls,
                   globals0, vres, resource, wiring>>

\* Telemetry::shutdown(self); any subset of the subsystem shutdowns may fail
Shutdown ==
    /\ pc = "active"
    /\ \E failing \in SUBSET {s \in Subsystems : tele[s] = "Some"} :
         LET visited == ShutdownVisited(tele, failing)
         IN /\ shutdownCalls' = [s \in Subsystems |->
                                   IF s \in visited THEN shutdownCalls[s] + 1
                                   ELSE shutdownCalls[s]]
            /\ prov' = [s \in Subsystems |-> IF s \in visited THEN "shut" ELSE prov[s]]
            /\ reported' = reported \cup
                             {"failed to shut down " \o s : s \in visited \cap failing}
    /\ tele' = NoHandles
    /\ pc' = "shut_down"
    /\ UNCHANGED <<profilerCompiled, config, calls, globals, globals0, result, vres,
                   resource, wiring>>

Next ==
    \/ NewValidate
    \/ NewSetupLogger
    \/ NewSetupTracer
    \/ NewSetupMeter
    \/ NewSetupProfiler
    \/ NewInstallSubscriber
    \/ Shutdown

Spec == Init /\ [][Next]_vars

----------------------------------------------------------------------------
(* The caller applying apply_defaults and validate to a configuration *)

InitConfig ==
    /\ profilerCompiled \in BOOLEAN
    /\ config \in CallerConfigs
    /\ pc = "caller"
    /\ tele = NoHandles
    /\ prov = [s \in Subsystems |-> "none"]
    /\ shutdownCalls = [s \in Subsystems |-> 0]
    /\ calls = <<>>
    /\ globals = FreshGlobals
    /\ globals0 = globals
    /\ result = Pending
    /\ reported = {}
    /\ vres = NoCall
    /\ resource = EmptyMap
    /\ wiring = NothingWired

CallerFrame ==
    UNCHANGED <<profilerCompiled, pc, tele, prov, shutdownCalls, calls, globals,
                globals0, result, reported, resource, wiring>>

\* config.apply_defaults()
CallApplyDefaults ==
    /\ pc = "caller"
    /\ config' = ConfigApplyDefaults(config)
    /\ vres' = NoCall
    /\ CallerFrame

\* config.validate()
CallConfigValidate ==
    /\ pc = "caller"
    /\ vres' = [op |-> "config", res |-> ConfigValidate(config)]
    /\ UNCHANGED config
    /\ CallerFrame

\* config.logger.validate()
CallLoggerValidate ==
    /\ pc = "caller"
    /\ vres' = [op |-> "log", res |-> LoggerValidate(config.logger)]
    /\ UNCHANGED config
    /\ CallerFrame

\* config.tracer.validate()
CallTracerValidate ==
    /\ pc = "caller"
    /\ vres' = [op |-> "trace", res |-> TracerValidate(config.tracer)]
    /\ UNCHANGED config
    /\ CallerFrame

\* config.meter.validate()
CallMeterValidate ==
    /\ pc = "caller"
    /\ vres' = [op |-> "metric", res |-> MeterValidate(config.meter)]
    /\ UNCHANGED config
    /\ CallerFrame

\* config.profiler.validate()
CallProfilerValidate ==
    /\ pc = "caller"
    /\ vres' = [op |-> "profile", res |-> ProfilerValidate(config.profiler)]
    /\ UNCHANGED config
    /\ CallerFrame

NextConfig ==
    \/ CallApplyDefaults
    \/ CallConfigValidate
    \/ CallLoggerValidate
    \/ CallTracerValidate
    \/ CallMeterValidate
    \/ CallProfilerValidate

SpecConfig == InitConfig /\ [][NextConfig]_vars

----------------------------------------------------------------------------
(* Telemetry::new on configurations with credentials and customizers *)

MaxCustomizers == 2

\* all sequences over S of length at most n
RECURSIVE SeqsUpTo(_, _)
SeqsUpTo(S, n) ==
    IF n = 0 THEN {<<>>}
    ELSE LET shorter == SeqsUpTo(S, n - 1)
         IN shorter \cup {Append(q, x) : q \in shorter, x \in S}

\* Resource customizers a caller may push onto Config.customizers
Customizers ==
    {[key |-> "team", value |-> "a"], [key |-> "team", value |-> "b"],
     [key |-> "service.name", value |-> "renamed"]}

\* Credentials a caller may give to a subsystem with with_credentials
WiringCredentials ==
    {CredentialsNew,
     WithBearer(CredentialsNew, "token"),
     WithBasic(CredentialsNew, "user", "pass"),
     WithHeader(WithApiKey(CredentialsNew, "key"), "X-Scope", "a")}

WiringConfigs ==
    {[ConfigNew("svc") EXCEPT
        !.logger.enabled = en["log"], !.logger.endpoint = Endpoint,
        !.logger.credentials = cr["log"],
        !.tracer.enabled = en["trace"], !.tracer.endpoint = Endpoint,
        !.tracer.credentials = cr["trace"],
        !.meter.enabled = en["metric"], !.meter.endpoint = Endpoint,
        !.meter.credentials = cr["metric"],
        !.profiler.enabled = FALSE,
        !.customizers = cz] :
        en \in [OtlpSubsystems -> BOOLEAN],
        cr \in [OtlpSubsystems -> WiringCredentials],
        cz \in SeqsUpTo(Customizers, MaxCustomizers)}

InitWiring ==
    /\ profilerCompiled \in BOOLEAN
    /\ config \in WiringConfigs
    /\ pc = "new"
    /\ tele = NoHandles
    /\ prov = [s \in Subsystems |-> "none"]
    /\ shutdownCalls = [s \in Subsystems |-> 0]
    /\ calls = <<>>
    /\ globals = FreshGlobals
    /\ globals0 = globals
    /\ result = Pending
    /\ reported = {}
    /\ vres = NoCall
    /\ resource = EmptyMap
    /\ wiring = NothingWired

SpecWiring == InitWiring /\ [][Next]_vars

----------------------------------------------------------------------------
(* The caller building a Credentials value and deriving its headers.  The  *)
(* value is the one held in config.logger.credentials.                      *)

HeaderNames == {"", "Authorization", "authorization", "X-Scope", "X-API-Key"}
HeaderValues == {"", "a"}
ApiKeyHeaderNames == {"X-Custom-Key", "Authorization"}

\* Credentials written as a struct literal over Default (the fields are pub)
AuthCredentials ==
    [basic_username : {None, "user"}, basic_password : {None, "pass"},
     bearer_token : {None, "token"}, api_key : {None, "key"},
     api_key_header : {None} \cup ApiKeyHeaderNames, headers : {EmptyMap}]

InitAuth ==
    /\ profilerCompiled \in BOOLEAN
    /\ config \in {[ConfigNew("svc") EXCEPT !.logger.credentials = c] :
                      c \in AuthCredentials}
    /\ pc = "caller"
    /\ tele = NoHandles
    /\ prov = [s \in Subsystems |-> "none"]
    /\ shutdownCalls = [s \in Subsystems |-> 0]
    /\ calls = <<>>
    /\ globals = FreshGlobals
    /\ globals0 = globals
    /\ result = Pending
    /\ reported = {}
    /\ vres = NoCall
    /\ resource = EmptyMap
    /\ wiring = NothingWired

\* credentials.with_basic(username, password)
CallWithBasic ==
    /\ pc = "caller"
    /\ config' = [config EXCEPT !.logger.credentials = WithBasic(@, "user", "pass")]
    /\ vres' = NoCall
    /\ CallerFrame

\* credentials.with_bearer(token)
CallWithBearer ==
    /\ pc = "caller"
    /\ config' = [config EXCEPT !.logger.credentials = WithBearer(@, "token")]
    /\ vres' = NoCall
    /\ CallerFrame

\* credentials.with_api_key(key)
CallWithApiKey ==
    /\ pc = "caller"
    /\ config' = [config EXCEPT !.logger.credentials = WithApiKey(@, "key")]
    /\ vres' = NoCall
    /\ CallerFrame

\* credentials.with_api_key_header(header)
CallWithApiKeyHeader ==
    /\ pc = "caller"
    /\ \E h \in ApiKeyHeaderNames :
          config' = [config EXCEPT !.logger.credentials = WithApiKeyHeader(@, h)]
    /\ vres' = NoCall
    /\ CallerFrame

\* credentials.with_header(key, value)
CallWithHeader ==
    /\ pc = "caller"
    /\ \E k \in HeaderNames, v \in HeaderValues :
          config' = [config EXCEPT !.logger.credentials = WithHeader(@, k, v)]
    /\ vres' = NoCall
    /\ CallerFrame

\* credentials.header_map()
CallHeaderMap ==
    /\ pc = "caller"
    /\ vres' = [op |-> "header_map", res |-> HeaderMap(config.logger.credentials)]
    /\ UNCHANGED config
    /\ CallerFrame

NextAuth ==
    \/ CallWithBasic
    \/ CallWithBearer
    \/ CallWithApiKey
    \/ CallWithApiKeyHeader
    \/ CallWithHeader
    \/ CallHeaderMap

SpecAuth == InitAuth /\ [][NextAuth]_vars

----------------------------------------------------------------------------
(* apply_defaults on configurations with arbitrary tuning fields *)

\* Durations in milliseconds: zero, under one second, over one second
Durations == {0, 200, 1500}
\* Sample ratios in hundredths: negative, zero, a proper fraction
SampleRatios == {-50, 0, 25}

DefaultsConfigs ==
    [resource : [service_name : ServiceNames,
                 service_version : {"", "2.0.0"},
                 service_namespace : {"", "prod"},
                 environment : {""}, attributes : {EmptyMap}],
     logger : [enabled : {TRUE}, endpoint : {Endpoint}, service_name : SubsystemNames,
               environment : {"", "production"}, timeout : Durations,
               credentials : {CredentialsNew}],
     tracer : [enabled : {TRUE}, endpoint : {Endpoint}, service_name : {"own"},
               sample_ratio : SampleRatios, export_timeout : Durations,
               use_global : {FALSE}, credentials : {CredentialsNew}],
     meter : [enabled : {TRUE}, endpoint : {Endpoint}, service_name : {""},
              export_interval : Durations, runtime : [enabled : {FALSE}],
              use_global : {FALSE}, credentials : {CredentialsNew}],
     profiler : [enabled : {TRUE}, server_url : {Endpoint}, service_name : SubsystemNames,
                 tags : {EmptyMap, [k \in {"service"} |-> "custom"]},
                 tenant_id : {None, "tenant"}, credentials : {CredentialsNew}],
     customizers : {<<>>}]

InitDefaults ==
    /\ profilerCompiled = TRUE
    /\ config \in DefaultsConfigs
    /\ pc = "caller"
    /\ tele = NoHandles
    /\ prov = [s \in Subsystems |-> "none"]
    /\ shutdownCalls = [s \in Subsystems |-> 0]
    /\ calls = <<>>
    /\ globals = FreshGlobals
    /\ globals0 = globals
    /\ result = Pending
    /\ reported = {}
    /\ vres = NoCall
    /\ resource = EmptyMap
    /\ wiring = NothingWired

\* The record of an apply_defaults call: the record it was called on, the
\* configuration before it, and whether the call before it was the same
Defaulted(on) ==
    [op |-> "apply_defaults", on |-> on, before |-> config,
     again |-> (vres.op = "apply_defaults" /\ vres.on = on)]

\* config.apply_defaults()
DefaultConfig ==
    /\ pc = "caller"
    /\ config' = ConfigApplyDefaults(config)
    /\ vres' = Defaulted("config")
    /\ CallerFrame

\* config.logger.apply_defaults()
DefaultLogger ==
    /\ pc = "caller"
    /\ config' = [config EXCEPT !.logger = LoggerApplyDefaults(@)]
    /\ vres' = Defaulted("log")
    /\ CallerFrame

\* config.tracer.apply_defaults()
DefaultTracer ==
    /\ pc = "caller"
    /\ config' = [config EXCEPT !.tracer = TracerApplyDefaults(@)]
    /\ vres' = Defaulted("trace")
    /\ CallerFrame

\* config.meter.apply_defaults()
DefaultMeter ==
    /\ pc = "caller"
    /\ config' = [config EXCEPT !.meter = MeterApplyDefaults(@)]
    /\ vres' = Defaulted("metric")
    /\ CallerFrame

\* config.profiler.apply_defaults()
DefaultProfiler ==
    /\ pc = "caller"
    /\ config' = [config EXCEPT !.profiler = ProfilerApplyDefaults(@)]
    /\ vres' = Defaulted("profile")
    /\ CallerFrame

NextDefaults ==
    \/ DefaultConfig
    \/ DefaultLogger
    \/ DefaultTracer
    \/ DefaultMeter
    \/ DefaultProfiler

SpecDefaults == InitDefaults /\ [][NextDefaults]_vars

----------------------------------------------------------------------------
(* logger::setup and meter::setup called on arbitrary endpoints, and the   *)
(* endpoint an exporter was given used as the configured endpoint again    *)

MaxEndpointPieces == 5

EndpointPieces == {"http://h", "/", "v1", "logs", "metrics"}

\* the strings made of at most n pieces
RECURSIVE EndpointTexts(_)
EndpointTexts(n) ==
    IF n = 0 THEN {""}
    ELSE LET shorter == EndpointTexts(n - 1)
         IN shorter \cup {t \o piece : t \in shorter, piece \in EndpointPieces}

\* one subsystem enabled, with the endpoint e
EndpointConfigs ==
    {[ConfigNew("svc") EXCEPT
        !.logger.enabled = (s = "log"), !.logger.endpoint = IF s = "log" THEN e ELSE None,
        !.tracer.enabled = FALSE,
        !.meter.enabled = (s = "metric"), !.meter.endpoint = IF s = "metric" THEN e ELSE None,
        !.profiler.enabled = FALSE] :
        s \in {"log", "metric"}, e \in EndpointTexts(MaxEndpointPieces)}

InitEndpoint ==
    /\ profilerCompiled \in BOOLEAN
    /\ config \in EndpointConfigs
    /\ pc = "caller"
    /\ tele = NoHandles
    /\ prov = [s \in Subsystems |-> "none"]
    /\ shutdownCalls = [s \in Subsystems |-> 0]
    /\ calls = <<>>
    /\ globals = FreshGlobals
    /\ globals0 = globals
    /\ result = Pending
    /\ reported = {}
    /\ vres = NoCall
    /\ resource = ResourceBuild(config.resource)
    /\ wiring = NothingWired

EndpointFrame ==
    UNCHANGED <<profilerCompiled, pc, tele, prov, shutdownCalls, calls, globals,
                globals0, result, reported, resource>>

\* logger::setup(&config.logger, &resource)
CallLoggerSetup ==
    /\ pc = "caller"
    /\ \E buildOk \in BOOLEAN :
          LET r == LoggerSetup(config.logger, buildOk)
          IN /\ vres' = [op |-> "setup", on |-> "log", res |-> r,
                         reused |-> (vres.op = "reuse" /\ vres.on = "log")]
             /\ wiring' = [wiring EXCEPT !["log"] =
                              IF r.some THEN LoggerWiring(config.logger, resource) ELSE @]
    /\ UNCHANGED config
    /\ EndpointFrame

\* meter::setup(&config.meter, &resource)
CallMeterSetup ==
    /\ pc = "caller"
    /\ \E buildOk \in BOOLEAN :
          LET r == MeterSetup(config.meter, buildOk)
          IN /\ vres' = [op |-> "setup", on |-> "metric", res |-> r,
                         reused |-> (vres.op = "reuse" /\ vres.on = "metric")]
             /\ wiring' = [wiring EXCEPT !["metric"] =
                              IF r.some THEN MeterWiring(config.meter, resource) ELSE @]
    /\ UNCHANGED config
    /\ EndpointFrame

\* config.logger.with_endpoint(the endpoint the log exporter was given)
ReuseLoggerEndpoint ==
    /\ pc = "caller"
    /\ vres.op = "setup" /\ vres.on = "log" /\ vres.res.some
    /\ config' = [config EXCEPT !.logger.endpoint = wiring["log"].endpoint]
    /\ vres' = [op |-> "reuse", on |-> "log"]
    /\ UNCHANGED wiring
    /\ EndpointFrame

\* config.meter.with_endpoint(the endpoint the metric exporter was given)
ReuseMeterEndpoint ==
    /\ pc = "caller"
    /\ vres.op = "setup" /\ vres.on = "metric" /\ vres.res.some
    /\ config' = [config EXCEPT !.meter.endpoint = wiring["metric"].endpoint]
    /\ vres' = [op |-> "reuse", on |-> "metric"]
    /\ UNCHANGED wiring
    /\ EndpointFrame

NextEndpoint ==
    \/ CallLoggerSetup
    \/ CallMeterSetup
    \/ ReuseLoggerEndpoint
    \/ ReuseMeterEndpoint

SpecEndpoint == InitEndpoint /\ [][NextEndpoint]_vars

----------------------------------------------------------------------------
(* The caller calls the setup function of one subsystem directly, on a
   configuration that apply_defaults has not touched (SpecSetup) *)

\* Sample ratios given to with_sample_ratio, in hundredths: it stores any f64
SetupSampleRatios == {-100, 0, 50, 100, 150}

\* Config::new followed by the builders enabled, with_endpoint and
\* with_sample_ratio; Config::new alone is one of them
SetupConfigs ==
    {[ConfigNew("svc") EXCEPT
        !.logger.enabled = le, !.logger.endpoint = lp,
        !.tracer.enabled = te, !.tracer.endpoint = tp, !.tracer.sample_ratio = ratio,
        !.meter.enabled = me, !.meter.endpoint = mp,
        !.profiler.enabled = pe, !.profiler.server_url = pp] :
        le \in BOOLEAN, lp \in Endpoints, te \in BOOLEAN, tp \in Endpoints,
        ratio \in SetupSampleRatios, me \in BOOLEAN, mp \in Endpoints,
        pe \in BOOLEAN, pp \in Endpoints}

InitSetup ==
    /\ profilerCompiled \in BOOLEAN
    /\ config \in SetupConfigs
    /\ pc = "caller"
    /\ tele = NoHandles
    /\ prov = [s \in Subsystems |-> "none"]
    /\ shutdownCalls = [s \in Subsystems |-> 0]
    /\ calls = <<>>
    /\ globals \in PriorGlobals
    /\ globals0 = globals
    /\ result = Pending
    /\ reported = {}
    /\ vres = NoCall
    /\ resource = ResourceBuild(config.resource)
    /\ wiring = NothingWired

\* tracer::setup(&config.tracer, &resource)
CallTracerSetup ==
    /\ pc = "caller"
    /\ \E buildOk \in BOOLEAN :
          LET r == TracerSetup(config.tracer, buildOk, globals)
          IN /\ vres' = [op |-> "setup", on |-> "trace", res |-> r.res, reused |-> FALSE]
             /\ globals' = r.g
             /\ wiring' = [wiring EXCEPT !["trace"] =
                              IF r.res.some THEN TracerWiring(config.tracer, resource) ELSE @]
    /\ UNCHANGED <<profilerCompiled, config, pc, tele, prov, shutdownCalls, calls,
                   globals0, result, reported, resource>>

\* profiler::setup(&config.profiler)
CallProfilerSetup ==
    /\ pc = "caller"
    /\ \E buildOk \in BOOLEAN :
          vres' = [op |-> "setup", on |-> "profile",
                   res |-> ProfilerSetup(config.profiler, buildOk, profilerCompiled),
                   reused |-> FALSE]
    /\ UNCHANGED <<config, wiring>>
    /\ EndpointFrame

NextSetup ==
    \/ CallLoggerSetup
    \/ CallTracerSetup
    \/ CallMeterSetup
    \/ CallProfilerSetup

SpecSetup == InitSetup /\ [][NextSetup]_vars

----------------------------------------------------------------------------
(* Telemetry::new on trace configurations whose sample ratio is not the
   constructor's (SpecSampling) *)

\* Config::new followed by with_sample_ratio with a ratio below 1.0 (the
\* ratios of SampleRatios), by the enabled flags and by the endpoints
SamplingConfigs ==
    {[ConfigNew("svc") EXCEPT
        !.logger.enabled = le, !.logger.endpoint = Endpoint,
        !.tracer.enabled = te, !.tracer.endpoint = tp,
        !.tracer.sample_ratio = ratio, !.tracer.use_global = tg,
        !.meter.enabled = me, !.meter.endpoint = Endpoint,
        !.profiler.enabled = pe, !.profiler.server_url = Endpoint] :
        le \in BOOLEAN, te \in BOOLEAN, tp \in Endpoints, ratio \in SampleRatios,
        tg \in BOOLEAN, me \in BOOLEAN, pe \in BOOLEAN}

InitSampling ==
    /\ profilerCompiled \in BOOLEAN
    /\ config \in SamplingConfigs
    /\ pc = "new"
    /\ tele = NoHandles
    /\ prov = [s \in Subsystems |-> "none"]
    /\ shutdownCalls = [s \in Subsystems |-> 0]
    /\ calls = <<>>
    /\ globals = FreshGlobals
    /\ globals0 = globals
    /\ result = Pending
    /\ reported = {}
    /\ vres = NoCall
    /\ resource = EmptyMap
    /\ wiring = NothingWired

SpecSampling == InitSampling /\ [][Next]_vars

----------------------------------------------------------------------------
(* Properties of Telemetry::new and Telemetry::shutdown (Spec) *)

\* Telemetry::new returned the error of a subsystem setup
SetupFailed == pc = "returned" /\ result.status = "err" /\ result.stage \in Subsystems

\* Telemetry::new returned a validation error
ValidationFailed == pc = "returned" /\ result.status = "err" /\ result.stage = "validate"

\* C1: when Telemetry::new returns a setup error, every handle that an
\* earlier setup constructed has had its subsystem shutdown called exactly
\* once.
C1_RollbackOnSetupError ==
    SetupFailed => \A s \in Subsystems : prov[s] # "none" => shutdownCalls[s] = 1

\* C2: Telemetry::shutdown calls the subsystem shutdown of each present
\* handle exactly once and of no absent handle, whichever of them fail; it
\* returns nothing to the caller and leaves the controller without a handle.
\* No shutdown call is made on any handle before Telemetry::shutdown.
C2_ShutdownVisitsEachPresentOnce ==
    [][ /\ pc = "active" => \A s \in Subsystems : shutdownCalls[s] = 0
        /\ (pc = "active" /\ pc' = "shut_down") =>
              /\ \A s \in Subsystems :
                    shutdownCalls'[s] = IF tele[s] = "Some" THEN 1 ELSE 0
              /\ tele' = NoHandles
              /\ result' = result
              /\ reported \subseteq reported' ]_vars

\* C2 witness: the logger's shutdown failed and was reported, and the
\* tracer and meter handles were shut down all the same.
C2_Witness ==
    /\ pc = "shut_down"
    /\ "failed to shut down log" \in reported
    /\ shutdownCalls["log"] = 1
    /\ shutdownCalls["trace"] = 1
    /\ shutdownCalls["metric"] = 1
    /\ shutdownCalls["profile"] = 0

\* C3: a validation failure of Telemetry::new leaves everything as it was:
\* no setup function was invoked, no handle or provider exists, and the
\* process-wide registrations are those found before the call.
C3_ValidationFailureHasNoEffect ==
    ValidationFailed =>
        /\ calls = <<>>
        /\ tele = NoHandles
        /\ \A s \in Subsystems : prov[s] = "none" /\ shutdownCalls[s] = 0
        /\ globals = globals0
        /\ reported = {}

\* C3 witness: validation failed on the tracer of a configuration whose
\* logger is enabled with an endpoint, in a process with prior registrations.
C3_Witness ==
    /\ ValidationFailed
    /\ result.variant = "Tracer"
    /\ config.logger.enabled
    /\ config.logger.endpoint # None
    /\ globals0.tracer_provider = "prior"

\* The configuration record of subsystem s and the fields the properties
\* speak about
SubConfig(c, s) ==
    CASE s = "log" -> c.logger
      [] s = "trace" -> c.tracer
      [] s = "metric" -> c.meter
      [] s = "profile" -> c.profiler

HasTarget(c, s) ==
    IF s = "profile" THEN c.profiler.server_url # None
    ELSE SubConfig(c, s).endpoint # None

\* C4: the setup functions are invoked in the order log, trace, metric,
\* profile; a setup error ends construction at the failing subsystem with no
\* Telemetry value; and while construction goes on, every enabled subsystem
\* whose setup has returned holds a handle (profile: when compiled in).
C4_FixedOrderFailFast ==
    /\ Len(calls) <= Len(Order)
    /\ \A i \in 1..Len(calls) : calls[i] = Order[i]
    /\ (result.status = "err" /\ result.stage \in Subsystems) =>
          /\ pc = "returned"
          /\ calls # <<>>
          /\ calls[Len(calls)] = result.stage
          /\ tele = NoHandles
    /\ result.status = "ok" => Len(calls) = Len(Order)
    /\ pc \notin {"returned", "shut_down"} =>
          \A i \in 1..Len(calls) :
              (SubConfig(config, calls[i]).enabled /\ (calls[i] = "profile" => profilerCompiled))
                  => tele[calls[i]] = "Some"

\* C4 witness: the metric setup failed after log and trace were set up;
\* the profiler setup was never invoked.
C4_Witness ==
    /\ SetupFailed
    /\ result.stage = "metric"
    /\ calls = <<"log", "trace", "metric">>
    /\ prov["log"] # "none"
    /\ prov["trace"] # "none"
    /\ config.profiler.enabled

\* C5: this construction's tracer (meter) provider is the process-wide one
\* only if use_global is set, the subsystem is enabled and its setup built
\* the provider; otherwise the slot is as it was found.  Defaulting and
\* validation change no registration.
C5_GlobalOnlyWhenFlaggedAndBuilt ==
    /\ globals.tracer_provider = "this" =>
          config.tracer.use_global /\ config.tracer.enabled /\ prov["trace"] # "none"
    /\ globals.tracer_provider # "this" =>
          globals.tracer_provider = globals0.tracer_provider
    /\ globals.meter_provider = "this" =>
          config.meter.use_global /\ config.meter.enabled /\ prov["metric"] # "none"
    /\ globals.meter_provider # "this" =>
          globals.meter_provider = globals0.meter_provider
    /\ (pc \in {"new", "setup_logger"} \/ ValidationFailed) => globals = globals0

\* C5 witness: the tracer provider was installed process-wide, the meter
\* provider was built with use_global = false and was not installed.
C5_Witness ==
    /\ globals.tracer_provider = "this"
    /\ prov["metric"] = "live"
    /\ ~config.meter.use_global
    /\ globals.meter_provider = globals0.meter_provider

\* C9: with a non-empty service name and all four subsystems disabled,
\* Telemetry::new does not fail, builds nothing, and the four has_*
\* predicates are false.
AllDisabled(c) ==
    /\ c.resource.service_name # ""
    /\ \A s \in Subsystems : ~SubConfig(c, s).enabled

C9_AllDisabledSucceeds ==
    AllDisabled(config) =>
        /\ result.status # "err"
        /\ pc # "returned"
        /\ \A s \in Subsystems : prov[s] = "none"
        /\ ~HasLogger(tele) /\ ~HasTracer(tele) /\ ~HasMeter(tele) /\ ~HasProfiler(tele)

\* C9 witness: such a construction returned Ok, in a build with profiling.
C9_Witness ==
    /\ AllDisabled(config)
    /\ profilerCompiled
    /\ pc = "active"
    /\ result = NewOk
    /\ calls = Order

\* C10: in a build without profiling, Telemetry::new never fails because of
\* the profile configuration, and has_profiler() is false.
C10_UnsupportedProfilerIsDisabled ==
    ~profilerCompiled =>
        /\ ~(result.status = "err" /\ result.stage = "profile")
        /\ ~(result.status = "err" /\ result.stage = "validate" /\ result.variant = "Profiler")
        /\ ~HasProfiler(tele)

----------------------------------------------------------------------------
(* Properties of the resource and the exporters (SpecWiring) *)

\* the customizers czs applied in list order, each to the result of the
\* previous one, starting from res
RECURSIVE ApplyCustomizers(_, _)
ApplyCustomizers(czs, res) ==
    IF Len(czs) = 0 THEN res
    ELSE ApplyCustomizers(Tail(czs), Customize(Head(czs), res))

\* C11: the resource a log, trace or metric setup receives is the resource
\* built from the descriptor with every customizer of config.customizers
\* applied to it in list order.
C11_CustomizersApplied ==
    \A s \in OtlpSubsystems :
        wiring[s].built =>
            wiring[s].resource =
                ApplyCustomizers(config.customizers, ResourceBuild(config.resource))

\* C12: the exporter of an enabled log, trace or metric subsystem is
\* constructed with the headers derived from that subsystem's credentials.
C12_ExporterCarriesDerivedHeaders ==
    \A s \in OtlpSubsystems :
        wiring[s].built =>
            wiring[s].headers = HeaderMap(SubConfig(config, s).credentials)

----------------------------------------------------------------------------
(* Properties of header_map (SpecAuth) *)

\* the credentials header_map was called on, and what it returned
Creds == config.logger.credentials
Derived == vres.res

HasBasicPair(c) == c.basic_username # None /\ c.basic_password # None
BasicValue(c) == "Basic " \o Base64Encode(c.basic_username \o ":" \o c.basic_password)
BearerValue(c) == "Bearer " \o c.bearer_token

\* the Basic or Bearer values that can be derived from c
AuthorizationValues(c) ==
    (IF HasBasicPair(c) THEN {BasicValue(c)} ELSE {})
        \cup (IF c.bearer_token # None THEN {BearerValue(c)} ELSE {})

\* the header name the API key of c goes under
ApiKeyHeaderName(c) ==
    IF c.api_key_header # None THEN c.api_key_header ELSE DEFAULT_API_KEY_HEADER

\* C13: in the derived headers the key "Authorization", when present, holds
\* the derived Basic or Bearer value and nothing else.
C13_AuthorizationOnlyBasicOrBearer ==
    vres.op = "header_map" =>
        ("Authorization" \in DOMAIN Derived =>
            Derived["Authorization"] \in AuthorizationValues(Creds))

\* C14: no entry of the extra headers whose key equals "authorization"
\* ignoring case appears in the derived headers: a derived entry under such
\* a key is the derived Basic/Bearer value or the API key under its header
\* name.
C14_ExtraAuthorizationFiltered ==
    vres.op = "header_map" =>
        \A k \in DOMAIN Creds.headers :
            (EqIgnoreAsciiCase(k, "authorization") /\ k \in DOMAIN Derived) =>
                \/ k = "Authorization" /\ Derived[k] \in AuthorizationValues(Creds)
                \/ /\ Creds.api_key # None
                   /\ k = ApiKeyHeaderName(Creds)
                   /\ Derived[k] = Creds.api_key

\* C14 witness: extra headers under "Authorization" and "authorization"
\* were given with a bearer token; the derived set has the Bearer value, the
\* other extra header, and no "authorization" key.
C14_Witness ==
    /\ vres.op = "header_map"
    /\ "Authorization" \in DOMAIN Creds.headers
    /\ Creds.headers["Authorization"] = "a"
    /\ "authorization" \in DOMAIN Creds.headers
    /\ Creds.headers["authorization"] = "a"
    /\ ~HasBasicPair(Creds)
    /\ Creds.api_key = None
    /\ Derived = [k \in {"Authorization", "X-Scope"} |->
                     IF k = "Authorization" THEN "Bearer token" ELSE "a"]

\* C15: with a complete basic pair and a bearer token both set the derived
\* Authorization is the Basic value; the Bearer value is derived only when
\* no complete basic pair is present, in whatever order the mutators ran.
C15_BasicBeforeBearer ==
    vres.op = "header_map" =>
        /\ HasBasicPair(Creds) =>
              /\ "Authorization" \in DOMAIN Derived
              /\ Derived["Authorization"] = BasicValue(Creds)
        /\ (~HasBasicPair(Creds) /\ Creds.bearer_token # None) =>
              /\ "Authorization" \in DOMAIN Derived
              /\ Derived["Authorization"] = BearerValue(Creds)

\* C15 witness: both forms were set and Basic base64("user:pass") came out.
C15_Witness ==
    /\ vres.op = "header_map"
    /\ Creds.basic_username = "user"
    /\ Creds.basic_password = "pass"
    /\ Creds.bearer_token = "token"
    /\ Derived["Authorization"] = "Basic dXNlcjpwYXNz"

\* every derived header comes from the extra headers or is the derived
\* Authorization
NoApiKeyHeaderDerived ==
    \A k \in DOMAIN Derived :
        \/ k \in DOMAIN Creds.headers /\ Derived[k] = Creds.headers[k]
        \/ k = "Authorization" /\ Derived[k] \in AuthorizationValues(Creds)

\* C16 as claimed: with an API key set the derived headers map the API-key
\* header name (custom, else X-API-Key) to the key; with none set no API-key
\* header is derived.
C16_ApiKeyUnderItsHeader ==
    vres.op = "header_map" =>
        IF Creds.api_key # None
        THEN /\ ApiKeyHeaderName(Creds) \in DOMAIN Derived
             /\ Derived[ApiKeyHeaderName(Creds)] = Creds.api_key
        ELSE NoApiKeyHeaderDerived

\* C16 amended: the same, except that under the header name "Authorization"
\* a derived Basic or Bearer value replaces the API key.
C16_ApiKeyUnderItsHeaderUnlessAuthorization ==
    vres.op = "header_map" =>
        IF Creds.api_key # None
        THEN /\ ApiKeyHeaderName(Creds) \in DOMAIN Derived
             /\ Derived[ApiKeyHeaderName(Creds)] =
                   IF /\ ApiKeyHeaderName(Creds) = "Authorization"
                      /\ AuthorizationValues(Creds) # {}
                   THEN IF HasBasicPair(Creds) THEN BasicValue(Creds)
                        ELSE BearerValue(Creds)
                   ELSE Creds.api_key
        ELSE NoApiKeyHeaderDerived

\* C16 witness: an API key under a custom header name, next to a bearer
\* token and an extra header of the default API-key name.
C16_Witness ==
    /\ vres.op = "header_map"
    /\ Creds.api_key = "key"
    /\ Creds.api_key_header = "X-Custom-Key"
    /\ Creds.bearer_token = "token"
    /\ "X-API-Key" \in DOMAIN Creds.headers
    /\ Derived["X-Custom-Key"] = "key"
    /\ Derived["Authorization"] = "Bearer token"

----------------------------------------------------------------------------
(* Properties of apply_defaults (SpecDefaults, Spec) *)

\* C17: applying the defaults a second time changes nothing, for the whole
\* Config and for each subsystem configuration.
C17_DefaultsIdempotent ==
    (vres.op = "apply_defaults" /\ vres.again) => config = vres.before

\* C17 witness: Config.apply_defaults ran twice on a configuration in which
\* the first run had cascaded the logger name, defaulted the zero meter
\* interval and added the profiler tags.
C17_Witness ==
    /\ vres.op = "apply_defaults"
    /\ vres.on = "config"
    /\ vres.again
    /\ config.logger.service_name = "svc"
    /\ config.tracer.sample_ratio = DEFAULT_SAMPLE_RATIO
    /\ config.meter.export_interval = DEFAULT_EXPORT_INTERVAL
    /\ config.profiler.tags = [k \in {"service", "service_name"} |-> "svc"]

\* the value apply_defaults is claimed to leave in a duration field
ZeroOrKept(before, default) == IF before = 0 THEN default ELSE before

\* C18: apply_defaults replaces the log timeout, the trace export timeout
\* and the metric export interval by the default only when the field is
\* zero; a non-zero duration, also one under one second, is unchanged.
C18_OnlyZeroDurationDefaulted ==
    vres.op = "apply_defaults" =>
        /\ vres.on \in {"config", "log"} =>
              config.logger.timeout =
                  ZeroOrKept(vres.before.logger.timeout, DEFAULT_TIMEOUT)
        /\ vres.on \in {"config", "trace"} =>
              config.tracer.export_timeout =
                  ZeroOrKept(vres.before.tracer.export_timeout, DEFAULT_EXPORT_TIMEOUT)
        /\ vres.on \in {"config", "metric"} =>
              config.meter.export_interval =
                  ZeroOrKept(vres.before.meter.export_interval, DEFAULT_EXPORT_INTERVAL)

\* C19: the apply_defaults step of Telemetry::new fills every empty
\* subsystem service name with the resource's and keeps a non-empty one,
\* and validation sees the filled names: under a non-empty resource name no
\* subsystem fails for its service name, and validation passes when every
\* enabled subsystem has its endpoint.
C19_NameCascadeBeforeValidation ==
    [][ pc = "new" =>
          /\ \A s \in Subsystems :
                SubConfig(config', s).service_name =
                    IF SubConfig(config, s).service_name = ""
                    THEN config.resource.service_name
                    ELSE SubConfig(config, s).service_name
          /\ config.resource.service_name # "" =>
                /\ result'.msg \notin {"logger service_name is required",
                                       "tracer service_name is required",
                                       "meter service_name is required",
                                       "profiler service_name is required"}
                /\ (\A s \in Subsystems :
                       SubConfig(config, s).enabled => HasTarget(config, s))
                      => pc' = "setup_logger" ]_vars

\* C19 witness: construction went past validation with a logger whose name
\* was filled from the resource and a tracer that kept its own name.
C19_Witness ==
    /\ pc = "setup_logger"
    /\ config.resource.service_name = "svc"
    /\ config.logger.enabled /\ config.logger.service_name = "svc"
    /\ config.tracer.enabled /\ config.tracer.service_name = "own"

----------------------------------------------------------------------------
(* Properties of the endpoint normalization (SpecEndpoint) *)

\* the path suffix of a subsystem's endpoint, and its configured endpoint
PathSuffix(s) == IF s = "log" THEN "/v1/logs" ELSE "/v1/metrics"
ConfiguredEndpoint(s) == IF s = "log" THEN config.logger.endpoint ELSE config.meter.endpoint

\* C20: a log or metric endpoint that already ends with its suffix reaches
\* the exporter unchanged, and the endpoint an exporter was given, when
\* configured again, reaches the exporter unchanged.
C20_NormalizationIdempotent ==
    (vres.op = "setup" /\ vres.res.some) =>
        /\ EndsWith(ConfiguredEndpoint(vres.on), PathSuffix(vres.on)) =>
              wiring[vres.on].endpoint = ConfiguredEndpoint(vres.on)
        /\ vres.reused => wiring[vres.on].endpoint = ConfiguredEndpoint(vres.on)

\* C20 witness: the endpoint the log exporter was given for a base URL
\* with a trailing slash was configured again and came out the same.
C20_Witness ==
    /\ vres.op = "setup"
    /\ vres.on = "log"
    /\ vres.res.some
    /\ vres.reused
    /\ config.logger.endpoint = "http://h/v1/logs"
    /\ wiring["log"].endpoint = "http://h/v1/logs"

----------------------------------------------------------------------------
(* Properties of validate (SpecConfig) *)

\* The endpoint-required error of subsystem s
TargetRequired(s) == IF s = "profile" THEN "ServerUrlRequired" ELSE "EndpointRequired"

\* C6: Config.validate reports the first failing check in the order resource
\* service name, log, trace, metric, profile, tagged with its subsystem.
\* Config::new("svc") fails with the logger's endpoint-required error.
C6_ValidateFirstFailure ==
    vres.op = "config" =>
        LET r == vres.res
            bad(s) == SubConfig(config, s).enabled
                      /\ (SubConfig(config, s).service_name = "" \/ ~HasTarget(config, s))
        IN /\ config.resource.service_name = "" <=> (~r.ok /\ r.variant = "ServiceNameRequired")
           /\ config.resource.service_name # "" =>
                /\ r.variant = "Logger" <=> bad("log")
                /\ r.variant = "Tracer" <=> (~bad("log") /\ bad("trace"))
                /\ r.variant = "Meter" <=> (~bad("log") /\ ~bad("trace") /\ bad("metric"))
                /\ r.variant = "Profiler" <=>
                      (~bad("log") /\ ~bad("trace") /\ ~bad("metric") /\ bad("profile"))
                /\ r.ok <=> \A s \in Subsystems : ~bad(s)
           /\ config = ConfigNew("svc") =>
                r = ConfigErr("Logger", "logger endpoint is required when enabled")

\* C6 witness: Config::new("svc") was validated; its logger and tracer are
\* both invalid and the logger is the one reported.
C6_Witness ==
    /\ vres.op = "config"
    /\ config = ConfigNew("svc")
    /\ config.logger.enabled /\ config.logger.endpoint = None
    /\ config.tracer.enabled /\ config.tracer.endpoint = None
    /\ vres.res.variant = "Logger"

\* C7 as claimed: an enabled subsystem configuration without endpoint fails
\* with the endpoint-required error, whatever its service name.
C7_EndpointRequiredForAnyName ==
    \A s \in Subsystems :
        (vres.op = s /\ SubConfig(config, s).enabled /\ ~HasTarget(config, s))
            => (~vres.res.ok /\ vres.res.err = TargetRequired(s))

\* C7 amended: an enabled subsystem configuration without endpoint fails
\* validation; with the endpoint-required error when its service name is
\* non-empty, with ServiceNameRequired when it is empty.
C7_EndpointRequiredForNonEmptyName ==
    \A s \in Subsystems :
        (vres.op = s /\ SubConfig(config, s).enabled /\ ~HasTarget(config, s))
            => /\ ~vres.res.ok
               /\ vres.res.err = IF SubConfig(config, s).service_name = ""
                                 THEN "ServiceNameRequired" ELSE TargetRequired(s)

\* C7 witness: an enabled logger without endpoint and with a name was
\* validated and EndpointRequired came back.
C7_Witness ==
    /\ vres.op = "log"
    /\ config.logger.enabled
    /\ config.logger.endpoint = None
    /\ config.logger.service_name = "own"
    /\ vres.res = VErr("EndpointRequired")

\* C8: a disabled subsystem configuration validates ok whatever its other
\* fields are.
C8_DisabledValidatesOk ==
    \A s \in Subsystems :
        (vres.op = s /\ ~SubConfig(config, s).enabled) => vres.res = VOk

\* C8 witness: a disabled meter without endpoint and with an empty service
\* name was validated.
C8_Witness ==
    /\ vres.op = "metric"
    /\ ~config.meter.enabled
    /\ config.meter.endpoint = None
    /\ config.meter.service_name = ""
    /\ vres.res.ok

----------------------------------------------------------------------------
(* Properties of the endpoint normalization: trailing slashes (SpecEndpoint) *)

\* C24: the log and metric setups strip the trailing slashes of the
\* configured endpoint before they test for the path suffix: when the
\* endpoint without its trailing slashes ends with the suffix, the exporter
\* is given exactly that, the suffix appearing once.
C24_TrailingSlashStrippedFirst ==
    (vres.op = "setup" /\ vres.res.some) =>
        LET stripped == TrimEndMatches(ConfiguredEndpoint(vres.on), "/")
        IN EndsWith(stripped, PathSuffix(vres.on)) =>
              wiring[vres.on].endpoint = stripped

----------------------------------------------------------------------------
(* Properties of the setup functions called directly (SpecSetup) *)

\* C21: the tracer provider built by the trace setup is given the sampler
\* that follows from the configured ratio: never-sample for a ratio of 0 or
\* less, always-sample for a ratio of 1 or more, and the ratio-based
\* sampler at exactly the configured ratio for a ratio strictly between.
C21_SamplerFollowsRatio ==
    (vres.op = "setup" /\ vres.on = "trace" /\ vres.res.some) =>
        LET ratio == config.tracer.sample_ratio
            sampler == wiring["trace"].sampler
        IN /\ ratio <= 0 => sampler = AlwaysOff
           /\ ratio >= 100 => sampler = AlwaysOn
           /\ (0 < ratio /\ ratio < 100) =>
                 sampler = [kind |-> "TraceIdRatioBased", ratio |-> ratio]

C21_Witness ==
    /\ vres.op = "setup" /\ vres.on = "trace" /\ vres.res.some
    /\ config.tracer.sample_ratio = 0
    /\ wiring["trace"].sampler = AlwaysOff

\* The configuration of subsystem s as its constructor returns it
FreshConfig(s, name) ==
    CASE s = "log" -> LoggerConfigNew(name)
      [] s = "trace" -> TracerConfigNew(name)
      [] s = "metric" -> MeterConfigNew(name)
      [] s = "profile" -> ProfilerConfigNew(name)

\* C23: the setup function of a subsystem, given that subsystem's
\* configuration as its constructor returns it (a service name and no
\* builder call), returns Ok(None): no handle and no error.
C23_FreshConfigSetsUpAbsent ==
    (vres.op = "setup"
        /\ SubConfig(config, vres.on) = FreshConfig(vres.on, "svc")) =>
        vres.res = SetupNone

----------------------------------------------------------------------------
(* Properties of the runtime-metrics registration (Spec) *)

\* setup_meter has returned Ok to Telemetry::new
MeterStagePassed == Len(calls) >= 3 /\ result.stage # "metric"

\* C22 (as stated): once the metric setup of a construction has succeeded,
\* the runtime gauge is registered whenever the metric subsystem is enabled
\* and its runtime toggle is on, and is not registered when the toggle is
\* off; the registration never fails the construction or costs the handle.
C22_RuntimeGaugeFollowsToggle ==
    MeterStagePassed =>
        /\ (config.meter.enabled /\ config.meter.runtime.enabled) =>
              globals.runtime_gauge # "none"
        /\ ~config.meter.runtime.enabled => globals.runtime_gauge = "none"
        /\ globals.runtime_gauge # "none" => wiring["metric"].built

\* C22 (amended): once the metric setup of a construction has succeeded,
\* the runtime gauge is registered on this construction's meter provider
\* when the metric subsystem is enabled, registered process-wide
\* (use_global) and its runtime toggle is on; with the toggle off, or
\* without use_global, the gauge is not registered.  Registering never
\* fails the construction or costs the handle, and nothing is logged.
C22_RuntimeGaugeFollowsToggleWhenGlobal ==
    MeterStagePassed =>
        /\ (config.meter.enabled /\ config.meter.use_global
                /\ config.meter.runtime.enabled) =>
              (globals.runtime_gauge = "this" /\ wiring["metric"].built)
        /\ ~config.meter.runtime.enabled => globals.runtime_gauge = "none"
        /\ ~config.meter.use_global => globals.runtime_gauge = "none"
        /\ globals.runtime_gauge # "none" =>
              /\ wiring["metric"].built
              /\ "failed to register runtime metrics" \notin reported
              /\ pc \in {"setup_profiler", "subscriber", "active"} => HasMeter(tele)

C22_Witness ==
    /\ pc = "active"
    /\ config.meter.enabled /\ config.meter.use_global /\ config.meter.runtime.enabled
    /\ globals.runtime_gauge = "this"
    /\ HasMeter(tele)

\* C25: the runtime gauge is registered only on the meter provider that the
\* same construction has built and installed process-wide: never before the
\* metric setup, never without the metric handle or without use_global;
\* and once the metric setup has returned Ok, whether it was registered is
\* settled by the metric configuration and the built provider alone,
\* whatever the log and trace handles are.
C25_RegistrationAfterGlobalInstall ==
    /\ globals.runtime_gauge \in {"none", "this"}
    /\ globals.runtime_gauge = "this" =>
          /\ Len(calls) >= 3
          /\ globals.meter_provider = "this"
          /\ wiring["metric"].built
          /\ config.meter.use_global
    /\ MeterStagePassed =>
          (globals.runtime_gauge = "this" <=>
              (config.meter.runtime.enabled /\ config.meter.use_global
                  /\ wiring["metric"].built))

C25_Witness ==
    /\ pc = "active"
    /\ ~HasLogger(tele) /\ ~HasTracer(tele) /\ HasMeter(tele)
    /\ globals0.meter_provider = "prior"
    /\ globals.meter_provider = "this"
    /\ globals.runtime_gauge = "this"

----------------------------------------------------------------------------
(* Properties of the trace setup and the process-wide state (Spec) *)

\* C26: the trace setup step of a construction leaves the process-wide
\* text-map propagator and tracer provider as they were when the trace
\* configuration has use_global = false, and when the setup fails.
C26_TraceSetupLeavesGlobalsAlone ==
    [][(pc = "setup_tracer"
            /\ (~config.tracer.use_global \/ result'.stage = "trace")) =>
          /\ globals'.propagator = globals.propagator
          /\ globals'.tracer_provider = globals.tracer_provider]_vars

----------------------------------------------------------------------------
(* Properties of validate on a defaulted configuration (SpecConfig) *)

\* The configuration is as apply_defaults leaves it
IsDefaulted == config = ConfigApplyDefaults(config)

EndpointRequiredMessages ==
    {"logger endpoint is required when enabled",
     "tracer endpoint is required when enabled",
     "meter endpoint is required when enabled",
     "profiler server_url is required when enabled"}

\* C27: Config::validate on a configuration that apply_defaults has been
\* applied to never reports the missing service name of a subsystem: it
\* returns Ok, or the top-level ServiceNameRequired (the resource's name is
\* empty), or a subsystem's endpoint-required error, and then every
\* subsystem's service name is non-empty.
C27_NoSubsystemNameErrorAfterDefaults ==
    (vres.op = "config" /\ IsDefaulted) =>
        \/ vres.res.ok
        \/ /\ vres.res.variant = "ServiceNameRequired"
           /\ config.resource.service_name = ""
        \/ /\ vres.res.variant \in {"Logger", "Tracer", "Meter", "Profiler"}
           /\ vres.res.msg \in EndpointRequiredMessages
           /\ \A s \in Subsystems : SubConfig(config, s).service_name # ""

C27_Witness ==
    /\ vres.op = "config" /\ IsDefaulted
    /\ vres.res.variant = "Tracer"
    /\ vres.res.msg = "tracer endpoint is required when enabled"
    /\ config.tracer.service_name = "svc"
    /\ config.logger.service_name = "own"
    \* a profile configuration that only the cascade produces
    /\ config.profiler.service_name = "svc"
    /\ config.profiler.tags["service"] = ""

\* C29: after apply_defaults, the tags "service" and "service_name" of a
\* profile configuration whose tags the caller has not set both equal the
\* profile configuration's service name as the cascade leaves it, also
\* when the configuration was created with an empty name and received the
\* top-level one.
C29_TagsFollowCascadedName ==
    IsDefaulted =>
        /\ config.profiler.tags["service"] = config.profiler.service_name
        /\ config.profiler.tags["service_name"] = config.profiler.service_name

----------------------------------------------------------------------------
(* Properties of the activity predicates (Spec) *)

EnabledFlags(c) == [s \in Subsystems |-> SubConfig(c, s).enabled]

\* C28: from the return of a successful Telemetry::new until shutdown,
\* has_logger, has_tracer and has_meter equal the enabled flags of the log,
\* trace and metric configurations, and in a build with the profiler
\* has_profiler equals the enabled flag of the profile configuration; the
\* flags are those of the configuration given to new, which apply_defaults
\* leaves as they are.
C28_PredicatesEqualEnabledFlags ==
    /\ [](pc = "active" =>
            /\ HasLogger(tele) = config.logger.enabled
            /\ HasTracer(tele) = config.tracer.enabled
            /\ HasMeter(tele) = config.meter.enabled
            /\ profilerCompiled => (HasProfiler(tele) = config.profiler.enabled))
    /\ [][EnabledFlags(config') = EnabledFlags(config)]_vars

C28_Witness ==
    /\ pc = "active"
    /\ profilerCompiled
    /\ HasLogger(tele) /\ ~HasTracer(tele) /\ HasMeter(tele) /\ HasProfiler(tele)
    /\ config.logger.enabled /\ ~config.tracer.enabled
    /\ config.meter.enabled /\ config.profiler.enabled

----------------------------------------------------------------------------
(* Properties of the sampler of a construction (SpecSampling) *)

\* C30: the tracer provider built by Telemetry::new is never given the
\* never-sample sampler: new replaces a configured ratio of 0 or less by
\* 1.0 before the trace setup runs, and the provider built from the
\* ratio 1.0 is given the always-sample sampler.
C30_NeverSampleNotThroughNew ==
    /\ [](wiring["trace"].built =>
            /\ wiring["trace"].sampler # [kind |-> "AlwaysOff"]
            /\ config.tracer.sample_ratio = DEFAULT_SAMPLE_RATIO =>
                  wiring["trace"].sampler = [kind |-> "AlwaysOn"])
    /\ [][(pc = "new" /\ config.tracer.sample_ratio <= 0) =>
            config'.tracer.sample_ratio = DEFAULT_SAMPLE_RATIO]_vars

\* No ratio of SampleRatios is 1.0 or more, so the always-sample sampler
\* of this state comes from a configured ratio of 0 or less.
C30_Witness ==
    /\ pc = "active"
    /\ wiring["trace"].built
    /\ config.tracer.sample_ratio = DEFAULT_SAMPLE_RATIO
    /\ wiring["trace"].sampler = AlwaysOn

====
